---- MODULE Spec2Model ----
(***************************************************************************)
(* A model of the phen_prior batch pipeline (src/main.py and src/modules). *)
(*                                                                         *)
(* Six state machines share this module, each with its own variables and   *)
(* its own specification; a specification leaves the other machines'       *)
(* variables at their idle values.                                         *)
(*                                                                         *)
(*   Spec         the batch command: the coordinator (_batch_async), the   *)
(*                semaphore and the thread pool, and one Run               *)
(*                (_run_pipeline_sync + Pipeline.run) per pending document *)
(*   SpecAsk      one language-model request (DeepSeekClient.ask)          *)
(*   SpecTool     one wait on a containerized tool's subprocess            *)
(*                (execute_phenotagger's loop, execute_clinprior's run)    *)
(*   SpecPersist  modify_sqlite on the shared variant table, one Run       *)
(*   SpecPersistAll  modify_sqlite by the concurrent Runs of a batch       *)
(*   SpecNormalize  process_text and its recursion over split_text         *)
(*   SpecFilter   filter_terms and the code list of _execute_clinprior     *)
(*                                                                         *)
(* All Runs of a batch have the same sample name, so the sample prefix of  *)
(* every file name is left out: "processed_text.txt" stands for            *)
(* "{sample_name}_processed_text.txt".                                     *)
(***************************************************************************)
EXTENDS Integers, Sequences, FiniteSets, TLC

VARIABLES
    \* ---- Spec: the batch ------------------------------------------------
    docs,       \* the documents _collect_docs found, 1..n
    stem,       \* stem[d]: the document's file stem (rglob finds x.txt in any subfolder)
    workers,    \* the --workers option
    cpus,       \* joblib.cpu_count()
    whitelist,  \* data/hpo_whitelist.txt exists
    apiKey,     \* load_config / .env yields a credential
    dirs,       \* dirs[s]: the result directory output_root/result_{sample}/s
    dirs0,      \* history: dirs when the batch was invoked
    bpc,        \* the coordinator's position
    cursor,     \* the index of the classification loop
    pending,    \* pending_docs
    completed,  \* the count of already complete documents
    sem,        \* free permits of asyncio.Semaphore(workers)
    rpc,        \* rpc[d]: the position of the document's coroutine / Run
    RESULT_DIR, \* hpo_ops.RESULT_DIR, a module global shared by all threads
    results,    \* results[d]: what the coroutine returned to gather
    started,    \* history: the steps Run d has begun, in order
    stepsDone,  \* history: the number of steps Run d completed successfully
    wrote,      \* history: the result directories Run d wrote a file into
    calls,      \* history: the external collaborators called in this invocation
    dbTouched,  \* history: the Runs that executed SQL on the sample's database
    hpo,        \* hpo[d]: hpo_terms of Run d, what get_hpo returned (None before)
    \* ---- SpecNormalize --------------------------------------------------
    norm,
    \* ---- SpecFilter -----------------------------------------------------
    flt,
    \* ---- SpecAsk --------------------------------------------------------
    ask,
    \* ---- SpecTool -------------------------------------------------------
    tool,
    \* ---- SpecPersist ----------------------------------------------------
    db

batchVars == <<docs, stem, workers, cpus, whitelist, apiKey, dirs, dirs0, bpc, cursor,
               pending, completed, sem, rpc, RESULT_DIR, results, started,
               stepsDone, wrote, calls, dbTouched, hpo>>
vars == <<batchVars, norm, flt, ask, tool, db>>

----------------------------------------------------------------------------
(* Bounds *)

MaxDocs == 2
MaxWorkers == 2
MaxCpus == 2

Stems == {"s1", "s2"}

None == "None"

----------------------------------------------------------------------------
(* File names *)

F_processed == "processed_text.txt"
F_eng == "eng.txt"
F_pubtator == "PubTator"
F_sh == "sh"
F_hpo == "hpo_terms.txt"
F_filtered == "filtered_terms.txt"
F_rscript == "clinprior_script.r"
F_csv == "clinprior.csv"
F_csv05 == "05_clinprior.csv"
F_error == "error.txt"

\* _is_output_complete: the three terminal artifacts
Expected == {"02_processed_text.txt", "04_filtered_terms.txt", "05_clinprior.csv"}

Steps == <<"Ingest", "Normalize", "Extract", "Filter", "Rank", "Persist">>

----------------------------------------------------------------------------
(* Result directories.  old: files left by an earlier invocation;          *)
(* new: files written during this invocation.                              *)

NoDir == [exists |-> FALSE, old |-> {}, new |-> {}]

Files(dir) == dir.old \cup dir.new

\* out_dir = output_root / f"result_{sample_name}" / doc.stem
OutDir(d) == stem[d]

is_output_complete_all_steps(dir) ==
    \A p \in Expected \cup {"03_hpo_terms.txt"} : p \in Files(dir)

is_output_complete(dir) == \A p \in Expected : p \in Files(dir)

\* shutil.rmtree(out_dir)
rmtree(ds, s) == [ds EXCEPT ![s] = NoDir]

\* out_dir.mkdir(parents=True, exist_ok=True)
mkdir(ds, s) == [ds EXCEPT ![s].exists = TRUE]

\* Path.write_text / shutil.copy: the file is replaced as a whole
WriteFiles(ds, s, names) ==
    [ds EXCEPT ![s].new = @ \cup names, ![s].old = @ \ names]

----------------------------------------------------------------------------
(* The batch coordinator: _batch_async *)

\* ThreadPoolExecutor(max_workers=min(workers, cpu_count()))
Min(a, b) == IF a <= b THEN a ELSE b

ExecutorSize_uncapped(w, c) == w

ExecutorSize(w, c) == Min(w, c)

\* the positions at which a Run occupies a pool thread
Executing == {"setup", "ingest", "normalize", "extract_translate", "extract_write",
              "extract_run", "filter", "rank", "persist", "persist_update"}

Running == {d \in docs : rpc[d] \in Executing}

InitialDirs ==
    { NoDir,
      [exists |-> TRUE, old |-> {}, new |-> {}],
      [exists |-> TRUE, old |-> {"02_processed_text.txt", "04_filtered_terms.txt"}, new |-> {}],
      [exists |-> TRUE, old |-> Expected, new |-> {}] }

InitBatch ==
    /\ docs \in {1..n : n \in 0..MaxDocs}
    /\ stem \in [docs -> Stems]
    /\ workers \in 1..MaxWorkers
    /\ cpus \in 1..MaxCpus
    /\ whitelist \in BOOLEAN
    /\ apiKey \in BOOLEAN
    /\ dirs \in [Stems -> InitialDirs]
    /\ \A s \in Stems : (\A d \in docs : stem[d] # s) => dirs[s] = NoDir
    /\ dirs0 = dirs
    /\ bpc = "scan"
    /\ cursor = 1
    /\ pending = <<>>
    /\ completed = 0
    /\ sem = 0
    /\ rpc = [d \in docs |-> "none"]
    /\ RESULT_DIR = None
    /\ results = [d \in docs |-> None]
    /\ started = [d \in docs |-> <<>>]
    /\ stepsDone = [d \in docs |-> 0]
    /\ wrote = [d \in docs |-> {}]
    /\ calls = {}
    /\ dbTouched = {}
    /\ hpo = [d \in docs |-> None]

runVars == <<rpc, RESULT_DIR, results, started, stepsDone, wrote, calls, dbTouched, hpo>>
\* what no action of the batch changes: its inputs and the other machines
fixedVars == <<docs, stem, workers, cpus, whitelist, apiKey, dirs0, norm, flt, ask, tool, db>>

\* docs = _collect_docs(docs_dir); no document: typer.Exit(code=1)
Scan ==
    /\ bpc = "scan"
    /\ bpc' = IF docs = {} THEN "exit1" ELSE "classify"
    /\ UNCHANGED <<fixedVars, dirs, cursor, pending, completed, sem, runVars>>

DiscardIncomplete_kept(ds, s) == ds

\* if out_dir.exists(): shutil.rmtree(out_dir)      (the loop of _batch_async)
DiscardIncomplete(ds, s) == IF ds[s].exists THEN rmtree(ds, s) ELSE ds

\* one iteration of the loop over docs
Classify ==
    /\ bpc = "classify"
    /\ cursor \in docs
    /\ LET s == OutDir(cursor) IN
       IF dirs[s].exists /\ is_output_complete(dirs[s])
       THEN /\ completed' = completed + 1
            /\ UNCHANGED <<dirs, pending>>
       ELSE /\ dirs' = DiscardIncomplete(dirs, s)
            /\ pending' = Append(pending, cursor)
            /\ UNCHANGED completed
    /\ cursor' = cursor + 1
    /\ UNCHANGED <<fixedVars, bpc, sem, runVars>>

\* the report, then either "Nothing to process" (typer.Exit(), status 0) or the
\* semaphore, the executor and one coroutine per pending document
Report ==
    /\ bpc = "classify"
    /\ cursor \notin docs
    /\ IF pending = <<>>
       THEN /\ bpc' = "exit0"
            /\ UNCHANGED <<sem, rpc>>
       ELSE /\ bpc' = "gather"
            /\ sem' = workers
            /\ rpc' = [d \in docs |->
                         IF \E i \in 1..Len(pending) : pending[i] = d
                         THEN "waiting" ELSE "none"]
    /\ UNCHANGED <<fixedVars, dirs, cursor, pending, completed, RESULT_DIR, results,
                   started, stepsDone, wrote, calls, dbTouched, hpo>>

\* async with sem: the coroutine takes a permit and submits the Run to the executor
Acquire(d) ==
    /\ bpc = "gather"
    /\ rpc[d] = "waiting"
    /\ sem > 0
    /\ sem' = sem - 1
    /\ rpc' = [rpc EXCEPT ![d] = "queued"]
    /\ UNCHANGED <<fixedVars, dirs, bpc, cursor, pending, completed, RESULT_DIR, results,
                   started, stepsDone, wrote, calls, dbTouched, hpo>>

\* a pool thread takes the work item
Dispatch(d) ==
    /\ bpc = "gather"
    /\ rpc[d] = "queued"
    /\ Cardinality(Running) < ExecutorSize(workers, cpus)
    /\ rpc' = [rpc EXCEPT ![d] = "setup"]
    /\ UNCHANGED <<fixedVars, dirs, bpc, cursor, pending, completed, sem, RESULT_DIR,
                   results, started, stepsDone, wrote, calls, dbTouched, hpo>>

\* the coroutine resumes with the Run's return value and releases the permit
Resume(d) ==
    /\ bpc = "gather"
    /\ rpc[d] \in {"returned_true", "returned_false"}
    /\ results' = [results EXCEPT ![d] = IF rpc[d] = "returned_true" THEN "ok" ELSE "failed"]
    /\ sem' = sem + 1
    /\ rpc' = [rpc EXCEPT ![d] = "done"]
    /\ UNCHANGED <<fixedVars, dirs, bpc, cursor, pending, completed, RESULT_DIR,
                   started, stepsDone, wrote, calls, dbTouched, hpo>>

\* SystemExit is not an Exception: it leaves _run_pipeline_sync, is set on the
\* future, re-raised in the coroutine and stops the event loop; asyncio.run
\* ends with it.  Waiting and queued coroutines are cancelled, the threads
\* already running finish their Run.
Crash(d) ==
    /\ bpc = "gather"
    /\ rpc[d] = "sysexit"
    /\ bpc' = "crashed"
    /\ rpc' = [rpc EXCEPT ![d] = "raised"]
    /\ UNCHANGED <<fixedVars, dirs, cursor, pending, completed, sem, RESULT_DIR, results,
                   started, stepsDone, wrote, calls, dbTouched, hpo>>

\* results = await asyncio.gather(*coros); the final report
Finish ==
    /\ bpc = "gather"
    /\ \A d \in docs : rpc[d] \in {"none", "done"}
    /\ bpc' = "finished"
    /\ UNCHANGED <<fixedVars, dirs, cursor, pending, completed, sem, runVars>>

\* failed = results.count(False)
Failed == Cardinality({d \in docs : results[d] = "failed"})

----------------------------------------------------------------------------
(* One Run: _run_pipeline_sync and Pipeline.run, on a pool thread *)

coordVars == <<bpc, cursor, pending, completed, sem, results>>

\* if out_dir.exists(): shutil.rmtree(out_dir); out_dir.mkdir(...)
FreshDir(ds, s) == mkdir(IF ds[s].exists THEN rmtree(ds, s) ELSE ds, s)

Begin(d, step) == started' = [started EXCEPT ![d] = Append(@, step)]

Complete(d) == stepsDone' = [stepsDone EXCEPT ![d] = @ + 1]

StepAfter_skipping(pc) ==
    CASE pc = "ingest" -> "normalize"
      [] pc = "normalize" -> "extract_translate"
      [] pc = "extract_run" -> "rank"
      [] pc = "filter" -> "rank"
      [] pc = "rank" -> "persist"
      [] pc = "persist_update" -> "returned_true"

\* the position after a step that completed
StepAfter(pc) ==
    CASE pc = "ingest" -> "normalize"
      [] pc = "normalize" -> "extract_translate"
      [] pc = "extract_run" -> "filter"
      [] pc = "filter" -> "rank"
      [] pc = "rank" -> "persist"
      [] pc = "persist_update" -> "returned_true"

\* except Exception: (out_dir / "error.txt").write_text(str(e)); return False
\* what an exception raised at position pc, with the directories ds, leads to
Caught(d, ds) ==
    /\ dirs' = WriteFiles(ds, OutDir(d), {F_error})
    /\ wrote' = [wrote EXCEPT ![d] = @ \cup {OutDir(d)}]
    /\ rpc' = [rpc EXCEPT ![d] = "returned_false"]

\* the directory is made afresh; Pipeline() builds DeepSeekClient, which calls
\* sys.exit(1) when no credential is found
Setup(d) ==
    /\ rpc[d] = "setup"
    /\ dirs' = FreshDir(dirs, OutDir(d))
    /\ rpc' = [rpc EXCEPT ![d] = IF apiKey THEN "ingest" ELSE "sysexit"]
    /\ UNCHANGED <<fixedVars, coordVars, RESULT_DIR, started, stepsDone, wrote, calls,
                   dbTouched, hpo>>

\* Step 1: text = self.med_doc.read_text(encoding="utf-8")
Ingest(d, ok) ==
    /\ rpc[d] = "ingest"
    /\ Begin(d, "Ingest")
    /\ IF ok
       THEN /\ Complete(d)
            /\ rpc' = [rpc EXCEPT ![d] = StepAfter("ingest")]
            /\ UNCHANGED <<dirs, wrote>>
       ELSE /\ Caught(d, dirs)
            /\ UNCHANGED stepsDone
    /\ UNCHANGED <<fixedVars, coordVars, RESULT_DIR, calls, dbTouched, hpo>>

\* Step 2: process_text; the result is written with write_text(processed, "_processed_text", ...)
Normalize(d, ok) ==
    /\ rpc[d] = "normalize"
    /\ Begin(d, "Normalize")
    /\ calls' = calls \cup {"llm"}
    /\ IF ok
       THEN /\ Complete(d)
            /\ dirs' = WriteFiles(dirs, OutDir(d), {F_processed})
            /\ wrote' = [wrote EXCEPT ![d] = @ \cup {OutDir(d)}]
            /\ rpc' = [rpc EXCEPT ![d] = StepAfter("normalize")]
       ELSE /\ Caught(d, dirs)
            /\ UNCHANGED stepsDone
    /\ UNCHANGED <<fixedVars, coordVars, RESULT_DIR, dbTouched, hpo>>

\* Step 3, get_hpo up to execute_phenotagger: the module globals are set, the
\* text is translated and written with write_text(eng, "_eng", ...)
ExtractTranslate(d, ok) ==
    /\ rpc[d] = "extract_translate"
    /\ Begin(d, "Extract")
    /\ RESULT_DIR' = OutDir(d)
    /\ calls' = calls \cup {"llm"}
    /\ IF ok
       THEN /\ dirs' = WriteFiles(dirs, OutDir(d), {F_eng})
            /\ wrote' = [wrote EXCEPT ![d] = @ \cup {OutDir(d)}]
            /\ rpc' = [rpc EXCEPT ![d] = "extract_write"]
       ELSE /\ Caught(d, dirs)
    /\ UNCHANGED <<fixedVars, coordVars, stepsDone, dbTouched, hpo>>

\* execute_phenotagger: _check_docker, then the tagger input and the script are
\* written into RESULT_DIR, the global as it is now
ExtractWrite(d, ok) ==
    /\ rpc[d] = "extract_write"
    /\ IF ok
       THEN /\ dirs' = WriteFiles(dirs, RESULT_DIR, {F_pubtator, F_sh})
            /\ wrote' = [wrote EXCEPT ![d] = @ \cup {RESULT_DIR}]
            /\ rpc' = [rpc EXCEPT ![d] = "extract_run"]
       ELSE /\ Caught(d, dirs)
    /\ UNCHANGED <<fixedVars, coordVars, RESULT_DIR, started, stepsDone, calls, dbTouched, hpo>>

\* what execute_phenotagger ends with: an exception (RuntimeError on a non-zero
\* status or on the timeout, CalledProcessError of the parsing command), or
\* the stripped output of the parsing command, which is empty when the tagger
\* marked no term
Empty == ""
TaggerResults == {"raised", Empty, "terms"}

\* execute_phenotagger: docker run mounts RESULT_DIR (read again) and the tool
\* copies its output there; the output is parsed; get_hpo writes
\* write_text(hpo, "_hpo_terms", ...) into the Run's own directory and returns hpo
ExtractRun(d, res) ==
    /\ rpc[d] = "extract_run"
    /\ calls' = calls \cup {"docker"}
    /\ IF res # "raised"
       THEN /\ Complete(d)
            /\ dirs' = WriteFiles(WriteFiles(dirs, RESULT_DIR, {F_pubtator}),
                                  OutDir(d), {F_hpo})
            /\ wrote' = [wrote EXCEPT ![d] = @ \cup {RESULT_DIR, OutDir(d)}]
            /\ hpo' = [hpo EXCEPT ![d] = res]
            /\ rpc' = [rpc EXCEPT ![d] = StepAfter("extract_run")]
       ELSE /\ Caught(d, dirs)
            /\ UNCHANGED <<stepsDone, hpo>>
    /\ UNCHANGED <<fixedVars, coordVars, RESULT_DIR, started, dbTouched>>

\* Step 4: filter_terms; write_text(filtered, "_filtered_terms", ...)
Filter(d, ok) ==
    /\ rpc[d] = "filter"
    /\ Begin(d, "Filter")
    /\ calls' = calls \cup {"llm"}
    /\ IF ok
       THEN /\ Complete(d)
            /\ dirs' = WriteFiles(dirs, OutDir(d), {F_filtered})
            /\ wrote' = [wrote EXCEPT ![d] = @ \cup {OutDir(d)}]
            /\ rpc' = [rpc EXCEPT ![d] = StepAfter("filter")]
       ELSE /\ Caught(d, dirs)
            /\ UNCHANGED stepsDone
    /\ UNCHANGED <<fixedVars, coordVars, RESULT_DIR, dbTouched, hpo>>

\* what the ranking container leaves in the mounted directory: clinprior_script.r
\* is not among the sources, so every set of CSV names is possible
ClinPriorOutputs == SUBSET {F_csv, F_csv05}

\* Step 5: _execute_clinprior.  _load_whitelist calls check_file_exists, which
\* calls sys.exit(1); else the script is copied and execute_clinprior runs the
\* container and raises on a non-zero status or a missing {sample}_clinprior.csv
Rank(d, rc, out) ==
    /\ rpc[d] = "rank"
    /\ Begin(d, "Rank")
    /\ IF ~whitelist
       THEN /\ rpc' = [rpc EXCEPT ![d] = "sysexit"]
            /\ UNCHANGED <<dirs, wrote, stepsDone, calls>>
       ELSE LET copied == WriteFiles(dirs, OutDir(d), {F_rscript})
                ran == WriteFiles(copied, OutDir(d), out)
            IN  /\ calls' = calls \cup {"docker"}
                /\ IF rc = 0 /\ F_csv \in Files(ran[OutDir(d)])
                   THEN /\ Complete(d)
                        /\ dirs' = ran
                        /\ wrote' = [wrote EXCEPT ![d] = @ \cup {OutDir(d)}]
                        /\ rpc' = [rpc EXCEPT ![d] = StepAfter("rank")]
                   ELSE /\ Caught(d, ran)
                        /\ UNCHANGED stepsDone
    /\ UNCHANGED <<fixedVars, coordVars, RESULT_DIR, dbTouched, hpo>>

\* Step 6, modify_sqlite up to the transaction: the CSV check, the connection
\* and the SELECT on the variant table
Persist(d) ==
    /\ rpc[d] = "persist"
    /\ Begin(d, "Persist")
    /\ IF F_csv05 \in Files(dirs[OutDir(d)])
       THEN /\ calls' = calls \cup {"db"}
            /\ dbTouched' = dbTouched \cup {d}
            /\ rpc' = [rpc EXCEPT ![d] = "persist_update"]
            /\ UNCHANGED <<dirs, wrote>>
       ELSE /\ Caught(d, dirs)
            /\ UNCHANGED <<calls, dbTouched, hpo>>
    /\ UNCHANGED <<fixedVars, coordVars, RESULT_DIR, stepsDone, hpo>>

\* modify_sqlite's transaction (SpecPersist models it row by row); an
\* sqlite3 error rolls it back and fails the Run
PersistUpdate(d, ok) ==
    /\ rpc[d] = "persist_update"
    /\ IF ok
       THEN /\ Complete(d)
            /\ rpc' = [rpc EXCEPT ![d] = StepAfter("persist_update")]
            /\ UNCHANGED <<dirs, wrote>>
       ELSE /\ Caught(d, dirs)
            /\ UNCHANGED stepsDone
    /\ UNCHANGED <<fixedVars, coordVars, RESULT_DIR, started, calls, dbTouched, hpo>>

----------------------------------------------------------------------------
(* The other machines' idle values, filled in by the sections below *)

NormIdle == [pc |-> "idle"]
FltIdle == [pc |-> "idle"]
AskIdle == [pc |-> "idle"]
ToolIdle == [pc |-> "idle"]
DbIdle == [pc |-> "idle"]

Init ==
    /\ InitBatch
    /\ norm = NormIdle
    /\ flt = FltIdle
    /\ ask = AskIdle
    /\ tool = ToolIdle
    /\ db = DbIdle

Next ==
    \/ Scan
    \/ Classify
    \/ Report
    \/ \E d \in docs : Acquire(d)
    \/ \E d \in docs : Dispatch(d)
    \/ \E d \in docs : Setup(d)
    \/ \E d \in docs, ok \in BOOLEAN : Ingest(d, ok)
    \/ \E d \in docs, ok \in BOOLEAN : Normalize(d, ok)
    \/ \E d \in docs, ok \in BOOLEAN : ExtractTranslate(d, ok)
    \/ \E d \in docs, ok \in BOOLEAN : ExtractWrite(d, ok)
    \/ \E d \in docs, res \in TaggerResults : ExtractRun(d, res)
    \/ \E d \in docs, ok \in BOOLEAN : Filter(d, ok)
    \/ \E d \in docs, rc \in {0, 1}, out \in ClinPriorOutputs : Rank(d, rc, out)
    \/ \E d \in docs : Persist(d)
    \/ \E d \in docs, ok \in BOOLEAN : PersistUpdate(d, ok)
    \/ \E d \in docs : Resume(d)
    \/ \E d \in docs : Crash(d)
    \/ Finish

Spec == Init /\ [][Next]_vars

----------------------------------------------------------------------------
(* Claims about the batch, checked under Spec *)

Classified(d) == bpc # "scan" /\ cursor > d

\* at the invocation the document's result directory held every expected
\* terminal artifact
InitiallyComplete(d) ==
    dirs0[OutDir(d)].exists /\ Expected \subseteq Files(dirs0[OutDir(d)])

\* at the invocation the directory existed and lacked an expected artifact
InitiallyPartial(d) ==
    dirs0[OutDir(d)].exists /\ \E p \in Expected : p \notin Files(dirs0[OutDir(d)])

IsPending(d) == \E i \in 1..Len(pending) : pending[i] = d

\* C1: in batch mode every fatal condition inside a Run (a missing whitelist
\* file and a missing credential included) is caught at Run granularity:
\* error.txt is written in the Run's directory, the Run returns as failed, and
\* the batch never terminates abnormally.
C1_FaultIsolation ==
    /\ bpc # "crashed"
    /\ \A d \in docs :
          (Len(started[d]) > stepsDone[d] \/ rpc[d] \in {"sysexit", "raised"})
          /\ rpc[d] \notin Executing
          => /\ rpc[d] \in {"returned_false", "done"}
             /\ F_error \in Files(dirs[OutDir(d)])

\* C2: re-invoking batch where every document's terminal artifacts all exist
\* starts no Pipeline, calls no external collaborator, and reports every
\* document as already complete with zero remaining.
C2_IdempotentResumption ==
    (docs # {} /\ \A d \in docs : InitiallyComplete(d))
    => /\ calls = {}
       /\ dbTouched = {}
       /\ \A d \in docs : rpc[d] = "none" /\ started[d] = <<>>
       /\ bpc \in {"scan", "classify", "exit0"}
       /\ pending = <<>>
       /\ dirs = dirs0
       /\ bpc = "exit0" => completed = Cardinality(docs)

C2_Witness ==
    /\ bpc = "exit0"
    /\ Cardinality(docs) = MaxDocs
    /\ \A d \in docs : InitiallyComplete(d)

\* C3: a document whose result directory exists but lacks an expected
\* artifact is classified as pending, its directory is deleted by the
\* classification, before any step of the new Run, and the new Run begins
\* step 1 with no file of the earlier invocation left.
C3_PartialOutputRejection ==
    \A d \in docs :
        (InitiallyPartial(d) /\ Classified(d))
        => /\ IsPending(d)
           /\ dirs[OutDir(d)].old = {}
           /\ bpc = "classify" => ~dirs[OutDir(d)].exists
           /\ started[d] # <<>> => dirs[OutDir(d)].exists

C3_Witness ==
    \E d \in docs :
        /\ InitiallyPartial(d)
        /\ dirs0[OutDir(d)].old # {}
        /\ rpc[d] = "normalize"
        /\ started[d] = <<"Ingest">>

\* C4: in every Run the six steps begin in the order Ingest, Normalize,
\* Extract, Filter, Rank, Persist, each only after the previous one completed
\* successfully; none is skipped or repeated, no step follows a failed one,
\* and the database is touched only after the five earlier steps succeeded.
C4_StepOrder ==
    \A d \in docs :
        /\ Len(started[d]) <= Len(Steps)
        /\ started[d] = SubSeq(Steps, 1, Len(started[d]))
        /\ stepsDone[d] <= Len(started[d])
        /\ Len(started[d]) <= stepsDone[d] + 1
        /\ d \in dbTouched => stepsDone[d] >= 5 /\ Len(started[d]) = 6
        /\ rpc[d] \in {"returned_false", "sysexit"} => Len(started[d]) = stepsDone[d] + 1
                                                      \/ started[d] = <<>>

C4_Witness ==
    \E d1, d2 \in docs :
        /\ stepsDone[d1] = 6 /\ d1 \in dbTouched /\ rpc[d1] = "returned_true"
        /\ rpc[d2] = "returned_false" /\ started[d2] = <<"Ingest", "Normalize", "Extract">>
        /\ d2 \notin dbTouched

\* C5: every file a Run writes lies in the Run's own result directory; stated
\* here for batches whose documents have pairwise distinct stems, hence
\* pairwise distinct result directories.
C5_DirectoryOwnership ==
    (\A d1, d2 \in docs : d1 # d2 => OutDir(d1) # OutDir(d2))
    => \A d \in docs : wrote[d] \subseteq {OutDir(d)}

\* C6: the number of Runs executing simultaneously is at most the worker
\* count and at most the CPU count.
C6_BoundedParallelism ==
    /\ Cardinality(Running) <= workers
    /\ Cardinality(Running) <= cpus

C6_Witness ==
    /\ workers = MaxWorkers
    /\ cpus < workers
    /\ Cardinality(Running) = cpus
    /\ \E d \in docs : rpc[d] = "queued"

\* C8: at most one Run against the sample's database executes at any time,
\* so no two Runs' Persist steps on it overlap (every Run of a batch has the
\* same sqlite_path).
C8_OneRunPerDatabase ==
    /\ Cardinality(Running) <= 1
    /\ Cardinality({d \in docs : rpc[d] = "persist_update"}) <= 1

\* C14: Extract fails the Run whenever the tagger exits non-zero, exceeds the
\* timeout or yields an empty list of terms: unless Extract returned a
\* non-empty list, Filter, Rank and Persist are not begun.
C14_ExtractFailure ==
    \A d \in docs : hpo[d] # "terms" => Len(started[d]) <= 3

\* C15: whenever Rank has completed without error, 05_clinprior.csv exists in
\* the Run's result directory, so Persist finds its input.
C15_RankOutput ==
    \A d \in docs : rpc[d] = "persist" => F_csv05 \in Files(dirs[OutDir(d)])

\* the batch invocation is over
BatchOver == bpc \in {"exit1", "exit0", "crashed", "finished"}

\* C17: every pending Document gets exactly one Run, whose outcome is recorded
\* by the end of the invocation; a Document classified as complete gets none.
C17_OutcomeRecorded ==
    \A d \in docs :
        /\ (Classified(d) /\ ~IsPending(d) /\ bpc # "classify") => rpc[d] = "none"
        /\ (BatchOver /\ IsPending(d)) => results[d] \in {"ok", "failed"}

\* C18: with no document found, or every document found already complete, the
\* batch exits with status 0, and has created no pool and started no Run.
C18_NothingToDo ==
    ((docs = {} \/ \A d \in docs : InitiallyComplete(d)) /\ bpc \notin {"scan", "classify"})
    => /\ bpc = "exit0"
       /\ sem = 0
       /\ \A d \in docs : rpc[d] = "none"

\* C19: when the batch has finished, of N pending Documents with k failed Runs
\* the report counts N-k successes and k failures, total = complete + pending,
\* and error.txt exists in a Run's result directory exactly if the Run failed.
C19_FinalReport ==
    bpc = "finished" =>
        /\ Cardinality(docs) = completed + Len(pending)
        /\ Len(pending) - Failed = Cardinality({d \in docs : results[d] = "ok"})
        /\ \A d \in docs :
              IsPending(d) =>
                 (F_error \in Files(dirs[OutDir(d)]) <=> results[d] = "failed")

\* C23: a Run that completed all six steps leaves a result directory that
\* _is_output_complete classifies as complete, so that the next invocation
\* skips the Document.
C23_CompleteIsResumable ==
    \A d \in docs :
        (stepsDone[d] = Len(Steps) /\ rpc[d] = "returned_true")
        => is_output_complete(dirs[OutDir(d)])

----------------------------------------------------------------------------
(* The batch at rest, for the specifications of the other machines *)

BatchIdle ==
    /\ docs = {}
    /\ stem = <<>>
    /\ workers = 1
    /\ cpus = 1
    /\ whitelist = TRUE
    /\ apiKey = TRUE
    /\ dirs = [s \in Stems |-> NoDir]
    /\ dirs0 = dirs
    /\ bpc = "idle"
    /\ cursor = 1
    /\ pending = <<>>
    /\ completed = 0
    /\ sem = 0
    /\ rpc = <<>>
    /\ RESULT_DIR = None
    /\ results = <<>>
    /\ started = <<>>
    /\ stepsDone = <<>>
    /\ wrote = <<>>
    /\ calls = {}
    /\ dbTouched = {}
    /\ hpo = <<>>

----------------------------------------------------------------------------
(* One language-model request: DeepSeekClient.ask *)
(* A text is a sequence of one-character strings; the stream delivers it   *)
(* in chunks of one character, or empty chunks, which ask skips.           *)

max_retries == 5
backoff == 2

MaxChunks == 2

Chunks == {"x", " ", ""}

Responses == UNION {[1..n -> Chunks] : n \in 0..MaxChunks}

RECURSIVE LStrip(_)
LStrip(t) == IF t # <<>> /\ Head(t) = " " THEN LStrip(Tail(t)) ELSE t

RECURSIVE RStrip(_)
RStrip(t) ==
    IF t # <<>> /\ t[Len(t)] = " " THEN RStrip(SubSeq(t, 1, Len(t) - 1)) ELSE t

\* str.strip()
Strip(t) == RStrip(LStrip(t))

\* "".join(...) of the chunks that carry content
RECURSIVE Joined(_)
Joined(cs) ==
    IF cs = <<>> THEN <<>>
    ELSE IF Head(cs) = "" THEN Joined(Tail(cs)) ELSE <<Head(cs)>> \o Joined(Tail(cs))

AskStart ==
    [pc |-> "create", attempt |-> 1, resp |-> <<>>, pos |-> 0, buf |-> <<>>,
     result |-> <<>>, outcomes |-> <<>>, waits |-> <<>>]

InitAsk ==
    /\ BatchIdle
    /\ norm = NormIdle
    /\ flt = FltIdle
    /\ ask = AskStart
    /\ tool = ToolIdle
    /\ db = DbIdle

OnTransient_no_retry(a) ==
    [a EXCEPT !.outcomes = Append(@, "transient"), !.pc = "raised"]

\* except (APIConnectionError, APITimeoutError, RateLimitError):
\*     if attempt == self.max_retries: raise
\*     time.sleep(self.backoff * attempt)
OnTransient(a) ==
    IF a.attempt = max_retries
    THEN [a EXCEPT !.outcomes = Append(@, "transient"), !.pc = "raised"]
    ELSE [a EXCEPT !.outcomes = Append(@, "transient"),
                   !.waits = Append(@, backoff * a.attempt),
                   !.attempt = @ + 1,
                   !.pc = "create"]

\* resp = self.client.chat.completions.create(..., stream=True); buf = []
AskCreate(r) ==
    /\ ask.pc = "create"
    /\ ask' = [ask EXCEPT !.pc = "stream", !.resp = r, !.pos = 0, !.buf = <<>>]
    /\ UNCHANGED <<batchVars, norm, flt, tool, db>>

\* one iteration of "for chunk in resp": an empty delta is skipped
AskChunk ==
    /\ ask.pc = "stream"
    /\ ask.pos < Len(ask.resp)
    /\ LET delta == ask.resp[ask.pos + 1] IN
       ask' = [ask EXCEPT !.pos = @ + 1,
                          !.buf = IF delta = "" THEN @ ELSE Append(@, delta)]
    /\ UNCHANGED <<batchVars, norm, flt, tool, db>>

\* return "".join(buf).strip()
AskReturn ==
    /\ ask.pc = "stream"
    /\ ask.pos = Len(ask.resp)
    /\ ask' = [ask EXCEPT !.pc = "returned", !.result = Strip(Joined(ask.buf)),
                          !.outcomes = Append(@, "ok")]
    /\ UNCHANGED <<batchVars, norm, flt, tool, db>>

\* a transient error, raised by create or while the stream is read
AskTransient ==
    /\ ask.pc \in {"create", "stream"}
    /\ ask' = OnTransient(ask)
    /\ UNCHANGED <<batchVars, norm, flt, tool, db>>

\* any other exception leaves ask at once
AskOtherError ==
    /\ ask.pc \in {"create", "stream"}
    /\ ask' = [ask EXCEPT !.pc = "raised_other", !.outcomes = Append(@, "other")]
    /\ UNCHANGED <<batchVars, norm, flt, tool, db>>

NextAsk ==
    \/ \E r \in Responses : AskCreate(r)
    \/ AskChunk
    \/ AskReturn
    \/ AskTransient
    \/ AskOtherError

SpecAsk == InitAsk /\ [][NextAsk]_vars

Transients(n) == [i \in 1..n |-> "transient"]

\* C9: a request is attempted at most max_retries times; a transient error on
\* an attempt that is not the last leads to one more attempt; the response of
\* the first successful attempt is returned; a transient error on the last
\* attempt is raised.
C9_BoundedRetry ==
    /\ ask.attempt \in 1..max_retries
    /\ Len(ask.outcomes) <= max_retries
    /\ ask.pc \in {"create", "stream"} => ask.outcomes = Transients(ask.attempt - 1)
    /\ ask.pc = "returned" =>
          /\ ask.outcomes = Transients(ask.attempt - 1) \o <<"ok">>
          /\ ask.result = Strip(Joined(ask.resp))
    /\ ask.pc = "raised" => ask.outcomes = Transients(max_retries)
    /\ ask.pc = "raised_other" =>
          ask.outcomes = Transients(ask.attempt - 1) \o <<"other">>

C9_Witness ==
    /\ ask.pc = "returned"
    /\ ask.attempt = max_retries
    /\ ask.result = <<"x">>
    /\ ask.resp = <<" ", "x">>

C9_WitnessRaised == ask.pc = "raised" /\ Len(ask.outcomes) = max_retries

\* C20: the wait between consecutive attempts grows exponentially: every wait
\* is the same multiple, greater than one, of the wait before it.
C20_ExponentialBackoff ==
    LET w == ask.waits IN
    /\ \A i \in 1..(Len(w) - 1) : w[i + 1] > w[i]
    /\ \A i \in 2..(Len(w) - 1) : w[i + 1] * w[i - 1] = w[i] * w[i]

----------------------------------------------------------------------------
(* One wait on a containerized tool: the loop of execute_phenotagger and   *)
(* the subprocess.run of execute_clinprior.  tool.now is time.time()-start *)
(* in seconds; tool.line says whether the pipe holds an unread line.       *)

DOCKER_TIMEOUT == 3600

MaxOvertime == 2

TickSteps == {1, DOCKER_TIMEOUT}

InitTool ==
    /\ BatchIdle
    /\ norm = NormIdle
    /\ flt = FltIdle
    /\ ask = AskIdle
    /\ db = DbIdle
    /\ \E k \in {"phenotagger", "clinprior"} :
          tool = [kind |-> k, pc |-> "wait", proc |-> "running", line |-> FALSE,
                  now |-> 0, rc |-> 0]

\* one iteration of "while True" in execute_phenotagger: p.stdout.readline()
\* returns when the pipe holds a line or is at end of file, which is when the
\* container has exited; then p.poll(), then the timeout test
TaggerIterate ==
    /\ tool.kind = "phenotagger"
    /\ tool.pc = "wait"
    /\ tool.line \/ tool.proc = "exited"
    /\ tool' =
         IF tool.proc = "exited"
         THEN [tool EXCEPT !.line = FALSE,
                           !.pc = IF tool.rc # 0 THEN "raised_status" ELSE "returned"]
         ELSE IF tool.now > DOCKER_TIMEOUT
         THEN [tool EXCEPT !.line = FALSE, !.proc = "killed", !.pc = "raised_timeout"]
         ELSE [tool EXCEPT !.line = FALSE]
    /\ UNCHANGED <<batchVars, norm, flt, ask, db>>

\* result = subprocess.run(cmd, capture_output=True, text=True) returns when
\* the container has exited; then the test of result.returncode
ClinpriorWait ==
    /\ tool.kind = "clinprior"
    /\ tool.pc = "wait"
    /\ tool.proc = "exited"
    /\ tool' = [tool EXCEPT !.pc = IF tool.rc # 0 THEN "raised_status" ELSE "returned"]
    /\ UNCHANGED <<batchVars, norm, flt, ask, db>>

\* the container writes a line to its output
ToolPrint ==
    /\ tool.pc = "wait"
    /\ tool.proc = "running"
    /\ ~tool.line
    /\ tool' = [tool EXCEPT !.line = TRUE]
    /\ UNCHANGED <<batchVars, norm, flt, ask, db>>

\* the container exits
ToolExit(rc) ==
    /\ tool.pc = "wait"
    /\ tool.proc = "running"
    /\ tool' = [tool EXCEPT !.proc = "exited", !.rc = rc]
    /\ UNCHANGED <<batchVars, norm, flt, ask, db>>

\* time passes
Tick(dt) ==
    /\ tool.pc = "wait"
    /\ tool.now + dt <= DOCKER_TIMEOUT + MaxOvertime
    /\ tool' = [tool EXCEPT !.now = @ + dt]
    /\ UNCHANGED <<batchVars, norm, flt, ask, db>>

\* the steps of the waiting thread
ToolWaitStep == TaggerIterate \/ ClinpriorWait

NextTool ==
    \/ TaggerIterate
    \/ ClinpriorWait
    \/ ToolPrint
    \/ \E rc \in {0, 1} : ToolExit(rc)
    \/ \E dt \in TickSteps : Tick(dt)

SpecTool == InitTool /\ [][NextTool]_vars

\* C10: every wait on a containerized tool is bounded by the hard timeout:
\* once the timeout has elapsed and the tool has not exited, whether or not it
\* has produced output, the waiting thread goes on to kill it and fail the
\* Run; it is never left blocked.
C10_HardTimeout ==
    (tool.pc = "wait" /\ tool.proc = "running" /\ tool.now > DOCKER_TIMEOUT)
    => ENABLED ToolWaitStep

----------------------------------------------------------------------------
(* Persist: modify_sqlite on the variant table of the sample's database.   *)
(* db.tbl is the committed table, a sequence of rows in rowid order;       *)
(* db.work is the table as the open write transaction sees it.             *)
(* db.csv is the ranking CSV; the Runs of SpecPersistAll read equal ones.  *)

NumRows == 3
MaxOffset == 1
MaxPersist == 2

Genes == {"G1", "G2"}

\* adjust_positions: order
order == <<"Pathogenic", "Likely pathogenic", "Uncertain significance",
           "Likely benign", "Benign">>

\* the classifications the rows are drawn from; "other" is none of order
AcmgValues == {"Pathogenic", "Likely pathogenic", "Benign", "other"}

PersistRuns == 1..MaxPersist

Rows == 1..NumRows

Injective(f) == \A a, b \in DOMAIN f : a # b => f[a] # f[b]

\* the ranking CSV: its Symbol column, without repeated genes
CsvFiles == {c \in UNION {[1..n -> Genes] : n \in 0..Cardinality(Genes)} : Injective(c)}

\* extract_pos: the 1-based index of the first CSV row of the gene, or the
\* string "None", which sort_values puts after every number
NoPos == Cardinality(Genes) + 1

extract_pos_unmatched_first(gene, csv) ==
    IF \E i \in 1..Len(csv) : csv[i] = gene
    THEN CHOOSE i \in 1..Len(csv) : csv[i] = gene /\ \A j \in 1..(i - 1) : csv[j] # gene
    ELSE 0

extract_pos(gene, csv) ==
    IF \E i \in 1..Len(csv) : csv[i] = gene
    THEN CHOOSE i \in 1..Len(csv) : csv[i] = gene /\ \A j \in 1..(i - 1) : csv[j] # gene
    ELSE NoPos

\* pd.Categorical(df["ACMG"], categories=order, ordered=True): the code of a
\* category, and NaN, which sort_values puts last, for any other value
CategoryCode(a) ==
    IF \E i \in 1..Len(order) : order[i] = a
    THEN CHOOSE i \in 1..Len(order) : order[i] = a
    ELSE Len(order) + 1

\* df.sort_values(by=["ACMG", "PositionFunct"]): row i comes before row j
\* (a stable sort: rows with equal keys keep the order of the SELECT)
SortsBefore(rows, csv, i, j) ==
    LET ci == CategoryCode(rows[i].acmg)
        cj == CategoryCode(rows[j].acmg)
        pi == extract_pos(rows[i].gene, csv)
        pj == extract_pos(rows[j].gene, csv)
    IN  \/ ci < cj
        \/ ci = cj /\ pi < pj
        \/ ci = cj /\ pi = pj /\ i < j

\* df["AdjustedPositionFunct"] = range(1, len(df) + 1), for the row read as i
AdjustedPosition(rows, csv, i) ==
    1 + Cardinality({j \in 1..Len(rows) : SortsBefore(rows, csv, j, i)})

\* updates = [(r["AdjustedPositionFunct"], r["base__uid"]) for _, r in df.iterrows()],
\* in the sorted order of df
Updates(rows, csv) ==
    [k \in 1..Len(rows) |->
        LET i == CHOOSE i \in 1..Len(rows) : AdjustedPosition(rows, csv, i) = k
        IN  <<k, rows[i].uid>>]

NegatePositive_skipped(t) == t

\* UPDATE variant SET base__uid = -base__uid WHERE base__uid > 0;
NegatePositive(t) ==
    [i \in 1..Len(t) |-> IF t[i].uid > 0 THEN [t[i] EXCEPT !.uid = -t[i].uid] ELSE t[i]]

\* UPDATE variant SET base__uid = ? WHERE base__uid = -?;   for one pair of updates
ApplyUpdate(t, u) ==
    [i \in 1..Len(t) |-> IF t[i].uid = -u[2] THEN [t[i] EXCEPT !.uid = u[1]] ELSE t[i]]

Uids(t) == {t[i].uid : i \in 1..Len(t)}

\* base__uid is the table's identifier column: no two rows have the same value
UniqueUids(t) == \A i, j \in 1..Len(t) : i # j => t[i].uid # t[j].uid

PersistStart == [pc |-> "start", rows |-> <<>>, updates |-> <<>>, k |-> 0]

InitPersist ==
    /\ BatchIdle
    /\ norm = NormIdle
    /\ flt = FltIdle
    /\ ask = AskIdle
    /\ tool = ToolIdle
    /\ \E off \in 0..MaxOffset,
          g \in [Rows -> Genes], a \in [Rows -> AcmgValues], c \in CsvFiles :
          /\ LET t == [i \in Rows |-> [uid |-> i + off, gene |-> g[i], acmg |-> a[i]]]
             IN  db = [pc |-> "open", tbl |-> t, tbl0 |-> t, work |-> t, csv |-> c,
                       lock |-> 0, run |-> [r \in PersistRuns |-> PersistStart]]

\* conn.execute("SELECT base__uid, base__hugo, intervar_new__ACMG FROM variant").fetchall(),
\* the CSV is read, and df and updates are computed; the SELECT sees the
\* committed table
PersistRead(r) ==
    /\ db.pc = "open"
    /\ db.run[r].pc = "start"
    /\ db' = [db EXCEPT !.run[r] = [pc |-> "read", rows |-> db.tbl,
                                    updates |-> Updates(db.tbl, db.csv), k |-> 0]]
    /\ UNCHANGED <<batchVars, norm, flt, ask, tool>>

\* with conn: ... the first UPDATE opens the write transaction, which SQLite
\* grants to one connection at a time, and negates the positive identifiers
PersistNegate(r) ==
    /\ db.pc = "open"
    /\ db.run[r].pc = "read"
    /\ db.lock = 0
    /\ db' = [db EXCEPT !.lock = r, !.work = NegatePositive(db.tbl),
                        !.run[r].pc = "assign"]
    /\ UNCHANGED <<batchVars, norm, flt, ask, tool>>

\* the write lock stays with another connection beyond the busy timeout:
\* sqlite3.OperationalError, nothing was changed
PersistBusy(r) ==
    /\ db.pc = "open"
    /\ db.run[r].pc = "read"
    /\ db.lock \notin {0, r}
    /\ db' = [db EXCEPT !.run[r].pc = "failed"]
    /\ UNCHANGED <<batchVars, norm, flt, ask, tool>>

\* conn.executemany: the next pair of updates; a duplicate identifier raises
\* sqlite3.IntegrityError and "with conn" rolls the transaction back
PersistAssign(r) ==
    /\ db.pc = "open"
    /\ db.run[r].pc = "assign"
    /\ db.run[r].k < Len(db.run[r].updates)
    /\ LET t == ApplyUpdate(db.work, db.run[r].updates[db.run[r].k + 1]) IN
       IF UniqueUids(t)
       THEN db' = [db EXCEPT !.work = t, !.run[r].k = @ + 1]
       ELSE db' = [db EXCEPT !.work = db.tbl, !.lock = 0, !.run[r].pc = "integrity_error"]
    /\ UNCHANGED <<batchVars, norm, flt, ask, tool>>

\* the end of "with conn": commit
PersistCommit(r) ==
    /\ db.pc = "open"
    /\ db.run[r].pc = "assign"
    /\ db.run[r].k = Len(db.run[r].updates)
    /\ db' = [db EXCEPT !.tbl = db.work, !.lock = 0, !.run[r].pc = "done"]
    /\ UNCHANGED <<batchVars, norm, flt, ask, tool>>

PersistError_no_rollback(r) ==
    /\ db.pc = "open"
    /\ db.run[r].pc = "assign"
    /\ db' = [db EXCEPT !.tbl = db.work, !.lock = 0, !.run[r].pc = "failed"]
    /\ UNCHANGED <<batchVars, norm, flt, ask, tool>>

\* any other sqlite3 error inside "with conn": rollback
PersistError(r) ==
    /\ db.pc = "open"
    /\ db.run[r].pc = "assign"
    /\ db' = [db EXCEPT !.work = db.tbl, !.lock = 0, !.run[r].pc = "failed"]
    /\ UNCHANGED <<batchVars, norm, flt, ask, tool>>

\* a single Run's Persist: Run 1 alone
NextPersist ==
    \/ PersistRead(1)
    \/ PersistNegate(1)
    \/ PersistAssign(1)
    \/ PersistCommit(1)
    \/ PersistError(1)

SpecPersist == InitPersist /\ [][NextPersist]_vars

\* the Runs of a batch, which share the database, each in its own thread
NextPersistAll ==
    \/ \E r \in PersistRuns : PersistRead(r)
    \/ \E r \in PersistRuns : PersistNegate(r)
    \/ \E r \in PersistRuns : PersistBusy(r)
    \/ \E r \in PersistRuns : PersistAssign(r)
    \/ \E r \in PersistRuns : PersistCommit(r)
    \/ \E r \in PersistRuns : PersistError(r)

SpecPersistAll == InitPersist /\ [][NextPersistAll]_vars

\* the Runs that have begun their Persist step
Persisting == {r \in PersistRuns : db.run[r].pc # "start"}

\* C7: for a table whose n rows carry the identifiers 1..n, after a single
\* Run's Persist the identifier set is again 1..n and each row holds its
\* computed adjusted position; no state of the two-phase update has two rows
\* with the same identifier, so no assignment is refused as a duplicate.
C7_IdentifierRewrite ==
    (Uids(db.tbl0) = 1..NumRows /\ Cardinality(Persisting) <= 1)
    => \A r \in Persisting :
          /\ UniqueUids(db.work)
          /\ Cardinality(Uids(db.work)) = NumRows
          /\ db.run[r].pc # "integrity_error"
          /\ db.run[r].pc = "assign" =>
                \A i \in Rows :
                   \/ db.work[i].uid = -db.tbl0[i].uid
                   \/ db.work[i].uid = AdjustedPosition(db.tbl0, db.csv, i)
          /\ db.run[r].pc = "done" =>
                /\ Uids(db.tbl) = 1..NumRows
                /\ \A i \in Rows : db.tbl[i].uid = AdjustedPosition(db.tbl0, db.csv, i)

C7_Witness ==
    /\ Uids(db.tbl0) = 1..NumRows
    /\ Cardinality(Persisting) = 1
    /\ \E r \in Persisting : db.run[r].pc = "done"
    /\ db.tbl[1].uid = 3 /\ db.tbl[2].uid = 1 /\ db.tbl[3].uid = 2

\* the five levels of the category order, first to last
FiveLevels == <<"Pathogenic", "Likely pathogenic", "Uncertain significance",
                "Likely benign", "Benign">>

Level(a) == CHOOSE k \in 1..Len(FiveLevels) : FiveLevels[k] = a

InFiveLevels(a) == \E k \in 1..Len(FiveLevels) : FiveLevels[k] = a

\* the gene has a row in the ranking CSV; the 1-based index of that row
Matched(gene) == \E k \in 1..Len(db.csv) : db.csv[k] = gene

RowIndex(gene) == CHOOSE k \in 1..Len(db.csv) : db.csv[k] = gene

\* C21: a Run's Persist assigns the positions 1..n in the order of the five
\* categories first and of the gene's 1-based row index in the ranking CSV
\* second; a variant whose gene is not in the CSV comes after every matched
\* variant of its category.
C21_SortOrder ==
    db.run[1].pc = "done" =>
        /\ Uids(db.tbl) = 1..NumRows
        /\ \A i, j \in Rows :
              LET ri == db.tbl0[i]
                  rj == db.tbl0[j]
              IN  /\ (InFiveLevels(ri.acmg) /\ InFiveLevels(rj.acmg)
                      /\ Level(ri.acmg) < Level(rj.acmg))
                     => db.tbl[i].uid < db.tbl[j].uid
                  /\ (InFiveLevels(ri.acmg) /\ ri.acmg = rj.acmg
                      /\ Matched(ri.gene) /\ Matched(rj.gene)
                      /\ RowIndex(ri.gene) < RowIndex(rj.gene))
                     => db.tbl[i].uid < db.tbl[j].uid
                  /\ (InFiveLevels(ri.acmg) /\ ri.acmg = rj.acmg
                      /\ Matched(ri.gene) /\ ~Matched(rj.gene))
                     => db.tbl[i].uid < db.tbl[j].uid

C21_Witness ==
    /\ db.run[1].pc = "done"
    /\ db.tbl0[1].acmg = "Benign" /\ Matched(db.tbl0[1].gene)
    /\ db.tbl0[2].acmg = "Pathogenic" /\ ~Matched(db.tbl0[2].gene)
    /\ db.tbl0[3].acmg = "Pathogenic" /\ Matched(db.tbl0[3].gene)
    /\ db.tbl[1].uid = 3 /\ db.tbl[2].uid = 2 /\ db.tbl[3].uid = 1

\* C22: the rewrite is atomic: when the update fails after the negation or
\* after some of the assignments, the committed identifiers are those from
\* before Persist, and no negated or partly reassigned identifier is ever
\* committed.
C22_AtomicRewrite ==
    /\ db.run[1].pc # "done" => db.tbl = db.tbl0
    /\ \A i \in Rows : db.tbl[i].uid > 0
    /\ db.run[1].pc = "done" => Uids(db.tbl) = 1..NumRows

C22_Witness ==
    /\ db.run[1].pc = "failed"
    /\ db.run[1].k = 1
    /\ db.tbl = db.tbl0
    /\ db.work = db.tbl0

\* C25: for a table of n distinct positive identifiers, once every Run of the
\* batch has finished its Persist every identifier is positive and the
\* identifiers are exactly 1..n, under every interleaving of the Runs' reads
\* and update transactions.
C25_ConcurrentPersist ==
    (\A r \in PersistRuns : db.run[r].pc = "done")
    => /\ \A i \in Rows : db.tbl[i].uid > 0
       /\ Uids(db.tbl) = 1..NumRows

----------------------------------------------------------------------------
(* Normalize: process_text.  A text is the sequence of its sentences, as    *)
(* nltk.sent_tokenize yields them; sentence i of the input has norm.tok[i]  *)
(* tokens.  The recursion of process_text is run depth first: norm.todo is  *)
(* the stack of the calls still to be made, each with its depth.            *)

\* if len(tokens) > 8192
TokenLimit == 8192

MaxSentences == 3

\* the interpreter's recursion limit, in calls of process_text
MaxDepth == 4

SentenceTokens == {1, 4096, 8193}

\* len(tokenizer.encode(text))
RECURSIVE tokens(_, _)
tokens(tok, text) ==
    IF text = <<>> THEN 0 ELSE tok[Head(text)] + tokens(tok, Tail(text))

\* sentences = nltk.sent_tokenize(text); mid = len(sentences) // 2
\* return " ".join(sentences[:mid]), " ".join(sentences[mid:])
split_text(text) ==
    LET mid == Len(text) \div 2
    IN  <<SubSeq(text, 1, mid), SubSeq(text, mid + 1, Len(text))>>

\* what the six requests to the language model make of a chunk
Processed(text) == <<"processed", text>>

\* write_text: path.write_text(text + "\n")
write_text(content) == content \o <<"\n">>

InputText(n) == [i \in 1..Len(n.tok) |-> i]

InitNormalize ==
    /\ BatchIdle
    /\ flt = FltIdle
    /\ ask = AskIdle
    /\ tool = ToolIdle
    /\ db = DbIdle
    /\ \E k \in 0..MaxSentences : \E t \in [1..k -> SentenceTokens] :
          norm = [pc |-> "run", tok |-> t,
                  todo |-> <<[text |-> [i \in 1..k |-> i], depth |-> 1]>>,
                  splits |-> <<>>, chunks |-> <<>>, out |-> <<>>,
                  file |-> None, asks |-> 0]

\* a call of process_text on a text over the limit: p1, p2 = split_text(text),
\* then process_text(p1) + "\n" + process_text(p2), the left call first
NormSplit ==
    /\ norm.pc = "run"
    /\ norm.todo # <<>>
    /\ LET call == Head(norm.todo)
           parts == split_text(call.text)
       IN  /\ tokens(norm.tok, call.text) > TokenLimit
           /\ call.depth < MaxDepth
           /\ norm' = [norm EXCEPT
                         !.todo = <<[text |-> parts[1], depth |-> call.depth + 1],
                                    [text |-> parts[2], depth |-> call.depth + 1]>>
                                  \o Tail(@),
                         !.splits = Append(@, parts)]
    /\ UNCHANGED <<batchVars, flt, ask, tool, db>>

\* the same call at the recursion limit: RecursionError leaves process_text
NormRecursionError ==
    /\ norm.pc = "run"
    /\ norm.todo # <<>>
    /\ tokens(norm.tok, Head(norm.todo).text) > TokenLimit
    /\ Head(norm.todo).depth = MaxDepth
    /\ norm' = [norm EXCEPT !.pc = "raised"]
    /\ UNCHANGED <<batchVars, flt, ask, tool, db>>

\* a call on a text within the limit: six requests, then
\* write_text(processed, "_processed_text", sample_name, result_dir); the value
\* returned is joined to what the calls before it returned
NormProcess ==
    /\ norm.pc = "run"
    /\ norm.todo # <<>>
    /\ LET call == Head(norm.todo) IN
       /\ tokens(norm.tok, call.text) <= TokenLimit
       /\ norm' = [norm EXCEPT
                     !.todo = Tail(@),
                     !.chunks = Append(@, call.text),
                     !.asks = @ + 6,
                     !.file = write_text(<<Processed(call.text)>>),
                     !.out = IF norm.chunks = <<>> THEN <<Processed(call.text)>>
                             ELSE @ \o <<"\n", Processed(call.text)>>]
    /\ UNCHANGED <<batchVars, flt, ask, tool, db>>

\* the outermost call returns
NormReturn ==
    /\ norm.pc = "run"
    /\ norm.todo = <<>>
    /\ norm' = [norm EXCEPT !.pc = "returned"]
    /\ UNCHANGED <<batchVars, flt, ask, tool, db>>

NextNormalize ==
    \/ NormSplit
    \/ NormRecursionError
    \/ NormProcess
    \/ NormReturn

SpecNormalize == InitNormalize /\ [][NextNormalize]_vars

\* the concatenation of the chunks, in the order they were processed
RECURSIVE Flatten(_)
Flatten(cs) == IF cs = <<>> THEN <<>> ELSE Head(cs) \o Flatten(Tail(cs))

\* the outputs of the chunks joined with single newlines
RECURSIVE JoinNewline(_)
JoinNewline(cs) ==
    IF cs = <<>> THEN <<>>
    ELSE IF Len(cs) = 1 THEN <<Processed(cs[1])>>
    ELSE <<Processed(cs[1]), "\n">> \o JoinNewline(Tail(cs))

\* C11: a text below the token threshold is processed exactly once; a text
\* above it is split into two parts at a sentence boundary, the parts are
\* processed independently and their outputs joined with a single newline,
\* and every sentence of the input is in exactly one part, in the original
\* order.  Here: Normalize ends by returning, and what it returns is so made.
C11_ChunkingRoundTrip ==
    LET text == InputText(norm)
        n == tokens(norm.tok, text)
    IN  norm.pc \in {"returned", "raised"} =>
           /\ norm.pc = "returned"
           /\ n < TokenLimit => norm.chunks = <<text>> /\ norm.asks = 6
           /\ n > TokenLimit =>
                 /\ norm.splits # <<>>
                 /\ norm.splits[1][1] \o norm.splits[1][2] = text
                 /\ Flatten(norm.chunks) = text
                 /\ norm.out = JoinNewline(norm.chunks)

\* C24: Normalize terminates for every input: each bisection of a text over
\* the threshold yields two parts with fewer sentences than the text, so that
\* parts within the threshold are reached after finitely many splits and the
\* recursion never runs into the interpreter's limit.
C24_Termination ==
    /\ norm.pc # "raised"
    /\ \A i \in 1..Len(norm.splits) :
          LET p == norm.splits[i]
          IN  /\ Len(p[1]) < Len(p[1]) + Len(p[2])
              /\ Len(p[2]) < Len(p[1]) + Len(p[2])

\* C16: when Normalize has completed, the processed-text artifact holds the
\* complete text Normalize returns, also when the input was processed in
\* several chunks.
C16_ProcessedArtifact ==
    norm.pc = "returned" => norm.file = write_text(norm.out)

----------------------------------------------------------------------------
(* Filter and the code list of Rank: filter_terms and                       *)
(* Pipeline._execute_clinprior.  The response of the language model is a    *)
(* sequence of pieces, each an HPO code (a match of HP:\d{7}) or other      *)
(* text.  A comma-joined code list is the sequence of its codes: a code     *)
(* holds no comma, so ",".join and split(",") lose nothing.                 *)

MaxResponse == 3

Codes == {"HP:0000001", "HP:0000002"}

ResponsePieces == Codes \cup {"text"}

DefaultCode == "HP:0000118"

\* data/hpo_whitelist.txt: whether the file exists, and the codes it lists
Whitelists == [exists : {TRUE}, codes : SUBSET Codes] \cup {[exists |-> FALSE, codes |-> {}]}

\* a value of filtered_terms / final_terms: None, or a comma-joined code list
NoTerms == [none |-> TRUE, codes |-> <<>>]
Terms(cs) == [none |-> FALSE, codes |-> cs]

IsCode(x) == x \in Codes

\* codes = re.findall(r"HP:\d{7}", filtered)
findall(response) == SelectSeq(response, IsCode)

\* return ",".join(codes) if codes else None
filter_terms(response) ==
    IF findall(response) # <<>> THEN Terms(findall(response)) ELSE NoTerms

FinalTerms_no_fallback(filtered_terms, wl) ==
    LET InWhitelist(t) == t \in wl
    IN  Terms(SelectSeq(filtered_terms.codes, InWhitelist))

\* final_terms = ",".join(t for t in filtered_terms.split(",") if t in wl)
\*               if filtered_terms else "HP:0000118"
FinalTerms(filtered_terms, wl) ==
    LET InWhitelist(t) == t \in wl
    IN  IF ~filtered_terms.none /\ filtered_terms.codes # <<>>
        THEN Terms(SelectSeq(filtered_terms.codes, InWhitelist))
        ELSE Terms(<<DefaultCode>>)

InitFilter ==
    /\ BatchIdle
    /\ norm = NormIdle
    /\ ask = AskIdle
    /\ tool = ToolIdle
    /\ db = DbIdle
    /\ \E k \in 0..MaxResponse : \E r \in [1..k -> ResponsePieces] :
       \E wl \in Whitelists :
          flt = [pc |-> "filter", response |-> r, wl |-> wl,
                 filtered |-> NoTerms, final |-> NoTerms]

\* Step 4: filtered = filter_terms(...); an exception of chat.ask fails the step
FilterTerms(ok) ==
    /\ flt.pc = "filter"
    /\ flt' = IF ok
              THEN [flt EXCEPT !.pc = "rank", !.filtered = filter_terms(flt.response)]
              ELSE [flt EXCEPT !.pc = "raised"]
    /\ UNCHANGED <<batchVars, norm, ask, tool, db>>

\* Step 5: self._execute_clinprior(filtered) with the whitelist file present:
\* execute_clinprior(final_terms, ...) passes final_terms to the container
ExecuteClinprior ==
    /\ flt.pc = "rank"
    /\ flt.wl.exists
    /\ flt' = [flt EXCEPT !.pc = "invoked",
                          !.final = FinalTerms(flt.filtered, flt.wl.codes)]
    /\ UNCHANGED <<batchVars, norm, ask, tool, db>>

\* _load_whitelist: check_file_exists(wl_path) calls sys.exit(1)
LoadWhitelistExit ==
    /\ flt.pc = "rank"
    /\ ~flt.wl.exists
    /\ flt' = [flt EXCEPT !.pc = "sysexit"]
    /\ UNCHANGED <<batchVars, norm, ask, tool, db>>

NextFilter ==
    \/ \E ok \in BOOLEAN : FilterTerms(ok)
    \/ ExecuteClinprior
    \/ LoadWhitelistExit

SpecFilter == InitFilter /\ [][NextFilter]_vars

\* the codes of a list, each once, in the order of first appearance
RECURSIVE FirstSeen(_)
FirstSeen(cs) ==
    IF cs = <<>> THEN <<>>
    ELSE LET init == FirstSeen(SubSeq(cs, 1, Len(cs) - 1))
             last == cs[Len(cs)]
         IN  IF \E i \in 1..Len(init) : init[i] = last THEN init ELSE Append(init, last)

\* C12: the code list the Filter step hands on holds each code of the response
\* exactly once, in order of first appearance, also when the response repeats
\* codes.
C12_DeduplicationOrder ==
    (flt.pc \in {"rank", "invoked", "sysexit"} /\ findall(flt.response) # <<>>)
    => flt.filtered = Terms(FirstSeen(findall(flt.response)))

\* C13: when the response holds no recognizable code the Run does not fail at
\* Filter, and the ranking tool is invoked with exactly the one default code
\* HP:0000118.
C13_FallbackTerm ==
    (flt.pc # "raised" /\ findall(flt.response) = <<>>)
    => /\ flt.filtered = NoTerms
       /\ flt.wl.exists => flt.pc \in {"filter", "rank", "invoked"}
       /\ flt.pc = "invoked" => flt.final = Terms(<<DefaultCode>>)

\* C26: the code list passed to the ranking tool is never empty, for every
\* Filter result and every whitelist.
C26_NonEmptyTerms ==
    flt.pc = "invoked" => flt.final.codes # <<>>

C13_Witness ==
    /\ flt.pc = "invoked"
    /\ flt.response = <<"text", "text">>
    /\ flt.final = Terms(<<DefaultCode>>)

====
